---- MODULE Spec2Model ----
(***************************************************************************)
(* ArcRevoke backend: the three routes of registerRoutes and the           *)
(* DatabaseStorage methods behind them, over the revoke_stats and          *)
(* revoke_history tables.  Every `await db...` of the storage layer is one *)
(* SQL statement, executed atomically by the database; a request is a      *)
(* sequence of such statements, and requests of different HTTP clients     *)
(* interleave between statements.                                          *)
(*                                                                         *)
(* Decimal texts ("150.00", "0.006", "0") are records [units, scale]:      *)
(* the numeral units * 10^-scale written with exactly `scale` fraction     *)
(* digits.  Numbers handled by parseFloat/toFixed are counted in mills     *)
(* (thousandths); numeric(20,2) columns are counted in cents.              *)
(*                                                                         *)
(* ArcRevoke page: ConnectWallet's accountsChanged listener, home's        *)
(* account state and the ApprovalList component (fetchTokens, the          *)
(* [account] effect, scanForApprovals, the checkboxes, handleRevokeDetected*)
(* and handleBatchRevokeDetected), with the chain's allowances.  Every     *)
(* await is a point where the continuations of other invocations and the   *)
(* user's clicks interleave.  Spec runs the server, SpecScan the listing   *)
(* and scanning of the page, SpecRevoke the revocations after a scan.      *)
(***************************************************************************)
EXTENDS Integers, Sequences, FiniteSets, TLC

VARIABLES
    revoke_stats,    \* table revoke_stats: a set of rows [id, totalRevokes, totalValueSecured]
    revoke_history,  \* table revoke_history: rows in insertion order
    pc,              \* per client: the statement its request is about to execute
    req,             \* per client: the request in flight, or the last one served
    resp,            \* per client: the response to its last served request
    existing,        \* per client: recordRevoke's local existingStats (<<>> = undefined)
    record,          \* per client: recordRevoke's local record (<<>> = not yet inserted)
    reqCount,        \* number of requests received so far
    failures,        \* number of SQL statements that have thrown so far
    alone,           \* per client: no other request was in flight during its request
    everOverlap,     \* two requests have been in flight at the same time
    seed             \* number of revokes persisted before the server started

\* The browser page (home.tsx with ConnectWallet and ApprovalList), the chain
\* and the block explorer it talks to.
VARIABLES
    walletAccount,      \* ConnectWallet: useState account (NoAccount = null)
    account,            \* home.tsx: useState account, the prop of ApprovalList
    timerAccount,       \* ApprovalList: the account its [account] effect last ran for, whose interval is set
    tokens,             \* ApprovalList: useState tokens
    detectedApprovals,  \* ApprovalList: useState detectedApprovals, as the set of its (token, spender) pairs
    isLoading,          \* ApprovalList: useState isLoading
    isScanning,         \* ApprovalList: useState isScanning
    revokingIds,        \* ApprovalList: useState revokingIds
    selectedIds,        \* ApprovalList: useState selectedIds
    isBatchRevoking,    \* ApprovalList: useState isBatchRevoking
    allowance,          \* chain: the (owner, token, spender) triples whose allowance is non-zero
    scan,               \* per invocation slot of fetchTokens/scanForApprovals: its locals and position
    lastScan,           \* the locals of the scan that completed last, until the next fetch starts
    revoke,             \* per invocation slot of handleRevokeDetected: its locals and position
    batch,              \* the invocation of handleBatchRevokeDetected: its locals and position
    posts,              \* per pair: number of POST /api/revoke requests sent for it
    confirmed,          \* per pair: number of approve(spender, 0) transactions confirmed for it
    faults,             \* number of calls (explorer, RPC, wallet, API) that have failed so far
    fetches,            \* number of fetchTokens invocations so far
    accountChanges,     \* number of accountsChanged events so far
    lastAccounts,       \* the account list of the last accountsChanged event
    inFlight,           \* chain: the approve transactions submitted and neither confirmed nor failed
    lastToast,          \* what the revoke handler that finished last reported, until the user's next click
    chainId,            \* wallet: the active chain (window.ethereum's eth_chainId)
    chainAdded,         \* wallet: the target chain is among the chains it knows
    wrongNetwork,       \* ConnectWallet: useState wrongNetwork
    isConnecting,       \* ConnectWallet: useState isConnecting
    connectCall,        \* the invocation of connect: its position
    forceCalls          \* the invocations of forceNetworkSwitch: how many wait at each request

serverVars == <<revoke_stats, revoke_history, pc, req, resp, existing, record,
                reqCount, failures, alone, everOverlap, seed>>

pageVars == <<walletAccount, account, timerAccount, tokens, detectedApprovals,
              isLoading, isScanning, revokingIds, selectedIds, isBatchRevoking,
              allowance, scan, lastScan, revoke, batch, posts, confirmed, faults, fetches,
              accountChanges, lastAccounts, inFlight, lastToast,
              chainId, chainAdded, wrongNetwork, isConnecting, connectCall, forceCalls>>

networkVars == <<chainId, chainAdded, wrongNetwork, isConnecting, connectCall, forceCalls>>

vars == <<serverVars, pageVars>>

----------------------------------------------------------------------------
\* Bounds of the model.

Clients == {"c1", "c2"}

MaxRequests == 3

MaxFailures == 1

MaxSeed == 9

MaxLimit == 1

\* The default page size of GET /api/revokes/recent.
DefaultLimit == 10

----------------------------------------------------------------------------
\* Decimal texts and the conversions the code applies to them.

Dec(u, s) == [units |-> u, scale |-> s]

Pow10(n) == IF n = 0 THEN 1 ELSE IF n = 1 THEN 10 ELSE IF n = 2 THEN 100 ELSE 1000

Digits(n, width) ==
    IF width = 0 THEN ""
    ELSE IF width = 1 THEN ToString(n % 10)
    ELSE IF width = 2 THEN ToString((n \div 10) % 10) \o ToString(n % 10)
    ELSE ToString((n \div 100) % 10) \o ToString((n \div 10) % 10) \o ToString(n % 10)

\* The characters of a decimal text, as they appear in a JSON response.
DecimalText(d) ==
    ToString(d.units \div Pow10(d.scale))
        \o (IF d.scale = 0 THEN "" ELSE "." \o Digits(d.units % Pow10(d.scale), d.scale))

\* parseFloat of a decimal text, in mills.
ParseFloat(d) == d.units * Pow10(3 - d.scale)

\* toFixed(2) replaced by a truncation to cents (Math.floor(x * 100) / 100).
ToFixed2Truncating(mills) == Dec(mills \div 10, 2)

\* Number.prototype.toFixed(2) of a number given in mills: the n for which
\* n / 100 is closest to the number, the larger n on a tie.
ToFixed2(mills) == Dec((mills + 5) \div 10, 2)

\* The value a numeric(20,2) column stores for a decimal text: rounded to
\* two fraction digits, in cents.
NumericColumn(d) == (ParseFloat(d) + 5) \div 10

\* The text a numeric(20,2) column reads back as.
ColumnText(cents) == Dec(cents, 2)

----------------------------------------------------------------------------
\* Request inputs.

RequiredFields == {"walletAddress", "tokenAddress", "tokenSymbol", "spenderAddress"}

Dec150 == Dec(15000, 2)

DecSubCent == Dec(6, 3)

\* valueSecured of a body: <<>> when the field is omitted, else <<text>>.
ValueInputs == {<<>>, <<Dec150>>, <<DecSubCent>>}

Bodies ==
    {[present |-> RequiredFields, value |-> v] : v \in ValueInputs}
        \cup {[present |-> RequiredFields \ {f}, value |-> <<Dec150>>] : f \in RequiredFields}

\* The limit query parameter: <<>> when omitted, else <<n>>.
LimitInputs == {<<>>} \cup {<<n>> : n \in -1 .. MaxLimit}

NoBody == [present |-> {}, value |-> <<>>]

NoResp == [status |-> 0, stats |-> <<>>, rows |-> <<>>]

Request(k, i, b, l) == [kind |-> k, id |-> i, body |-> b, limit |-> l]

----------------------------------------------------------------------------
\* Schema.

\* A schema that requires only the wallet address.
SafeParseWalletOnly(body) == "walletAddress" \in body.present

\* insertRevokeHistorySchema.safeParse: the notNull columns without a
\* default are required; valueSecured (default "0") and txHash are optional.
SafeParse(body) == RequiredFields \subseteq body.present

\* The row revoke_history stores for a validated body: valueSecured takes
\* the column default "0" when omitted; createdAt is defaultNow().
HistoryRow(i, body, now) ==
    [id |-> i,
     valueSecured |-> NumericColumn(IF body.value = <<>> THEN Dec(0, 0) ELSE body.value[1]),
     createdAt |-> now]

StatsRow(i, n, total) == [id |-> i, totalRevokes |-> n, totalValueSecured |-> NumericColumn(total)]

\* defaultNow(): successive inserts read strictly later instants of the
\* database clock.
Now == Len(revoke_history) + 1

----------------------------------------------------------------------------
\* Storage helpers.

\* A select whose condition matches no row.
SelectFirstOfNone == {<<>>}

\* `const [row] = await db.select().from(revokeStats)`: the first row of an
\* unordered select; any row of the table may come first.
SelectFirst == IF revoke_stats = {} THEN {<<>>} ELSE {<<r>> : r \in revoke_stats}

\* parseFloat(data.valueSecured || "0") || 0, in mills.
ValueSecuredOf(body) == IF body.value = <<>> THEN ParseFloat(Dec(0, 0)) ELSE ParseFloat(body.value[1])

RECURSIVE OrderByCreatedAtDesc(_)
OrderByCreatedAtDesc(rows) ==
    IF rows = {} THEN <<>>
    ELSE LET newest == CHOOSE r \in rows : \A q \in rows : q.createdAt <= r.createdAt
         IN  <<newest>> \o OrderByCreatedAtDesc(rows \ {newest})

Rows(table) == {table[i] : i \in 1 .. Len(table)}

Min(a, b) == IF a <= b THEN a ELSE b

\* The select without its orderBy: rows come in insertion order.
SelectRecentUnordered(limit) ==
    SubSeq(revoke_history, 1, Min(limit, Len(revoke_history)))

\* ... ORDER BY created_at DESC LIMIT limit
SelectRecent(limit) ==
    SubSeq(OrderByCreatedAtDesc(Rows(revoke_history)), 1, Min(limit, Len(revoke_history)))

\* parseInt(req.query.limit) || 10: NaN (parameter omitted) and 0 are falsy.
RouteLimit(q) == IF q = <<>> THEN DefaultLimit ELSE IF q[1] = 0 THEN DefaultLimit ELSE q[1]

----------------------------------------------------------------------------
\* The persisted state the server starts on: a fresh database, or one that
\* earlier served `n` revokes of "150.00" one after the other.

SeedHistory(n) == [i \in 1 .. n |-> HistoryRow(i, [present |-> RequiredFields, value |-> <<Dec150>>], i)]

SeedStats(n) == IF n = 0 THEN {} ELSE {StatsRow(0, n, ToFixed2(n * ParseFloat(Dec150)))}

\* The page's world: accounts of the wallet, the tokens the explorer lists,
\* and the spenders its Approval logs name for each token.

NoAccount == "null"

Accounts == {"A", "B"}

Tokens == {"T1", "T2"}

Spenders == {"S1", "S2"}

\* Spenders named by topics[2] of a token's Approval logs, in log order.
LogSpenders(t) == IF t = "T1" THEN <<"S1", "S2">> ELSE <<"S1">>

Range(seq) == {seq[i] : i \in 1 .. Len(seq)}

\* ARC_TESTNET.chainId, and any other chain the wallet can be on.
TargetChain == "0x4cef22"

Chains == {TargetChain, "0x1"}

NoForceCalls == [switch |-> 0, add |-> 0]

\* The wallet on the target chain and ConnectWallet as mounted.
NetworkInit ==
    /\ chainId = TargetChain
    /\ chainAdded = TRUE
    /\ wrongNetwork = FALSE
    /\ isConnecting = FALSE
    /\ connectCall = "idle"
    /\ forceCalls = NoForceCalls

\* A DetectedApproval is identified by its pair: id = `${tokenAddress}-${spender}`.
Pairs == {<<t, s>> : t \in Tokens, s \in Spenders}

LoggedPairs == {p \in Pairs : p[2] \in Range(LogSpenders(p[1]))}

\* What the tokenlist endpoint can answer with for an address.
TokenLists == {<<>>, <<"T1">>, <<"T1", "T2">>}

\* balanceOf as the chain answers it, in the token's smallest unit.
ChainBalance(t) == IF t = "T1" THEN 5 ELSE 0

\* decimals() as the token contracts answer it.
ChainDecimals(t) == 6

\* formatUnits(value, decimals): the decimal text of value * 10^-decimals.
FormatUnits(value, decimals) == Dec(value, decimals)

\* A fetchTokens whose catch keeps the decimals it read.
TokenWithBalanceKeepingDecimals(t, outcome) ==
    [contractAddress |-> t,
     balance |-> IF outcome = "balanceThrew" THEN Dec(0, 0)
                 ELSE FormatUnits(ChainBalance(t),
                                  IF outcome = "read" THEN ChainDecimals(t) ELSE 18),
     decimals |-> IF outcome = "decimalsThrew" THEN 18 ELSE ChainDecimals(t)]

\* A token the way fetchTokens stores it.  Both reads answered ("read"):
\* the balance formatted with the decimals of the chain; decimals() threw:
\* its .catch gives 18, and the balance is formatted with 18; balanceOf
\* threw: the catch of the token gives '0' and 18.
TokenWithBalance(t, outcome) ==
    [contractAddress |-> t,
     balance |-> IF outcome = "balanceThrew" THEN Dec(0, 0)
                 ELSE FormatUnits(ChainBalance(t),
                                  IF outcome = "read" THEN ChainDecimals(t) ELSE 18),
     decimals |-> IF outcome = "read" THEN ChainDecimals(t) ELSE 18]

\* Locals of one fetchTokens invocation and of the scanForApprovals it starts.
\* balOf, logOf and readOf keep what the chain and the explorer answered to it.
IdleScan ==
    [pc |-> "idle", account |-> NoAccount, list |-> <<>>, ti |-> 0, todo |-> <<>>,
     found |-> {},
     balOf |-> [t \in Tokens |-> "none"],
     logOf |-> [t \in Tokens |-> "none"],
     readOf |-> [p \in Pairs |-> "none"]]

\* Locals of one handleRevokeDetected invocation.
IdleRevoke ==
    [pc |-> "idle", approval |-> <<>>, account |-> NoAccount, signer |-> NoAccount]

\* Locals of the handleBatchRevokeDetected invocation.  tried and forwarded
\* keep, per position of toRevoke, how many times approve was called and
\* recordRevokeToServer was called for it; failed keeps the positions whose
\* catch ran.
IdleBatch ==
    [pc |-> "idle", toRevoke |-> <<>>, i |-> 0, success |-> 0, revokedIds |-> {},
     account |-> NoAccount, signer |-> NoAccount, tried |-> <<>>, forwarded |-> <<>>,
     failed |-> {}]

\* One invocation of fetchTokens is followed at a time: a call made while it
\* runs is taken up when it has returned.
Scans == {1}

Revokes == {1, 2}

\* Every owner's allowance for every logged pair is live, except the one
\* that A revoked before the page was opened.
InitialAllowance ==
    {<<a, p[1], p[2]>> : a \in Accounts, p \in LoggedPairs} \ {<<"A", "T1", "S2">>}

NoToast == [title |-> "none"]

\* The page as mounted without a connected wallet.
PageInit ==
    /\ walletAccount = NoAccount
    /\ account = NoAccount
    /\ timerAccount = NoAccount
    /\ tokens = <<>>
    /\ detectedApprovals = {}
    /\ isLoading = FALSE
    /\ isScanning = FALSE
    /\ revokingIds = {}
    /\ selectedIds = {}
    /\ isBatchRevoking = FALSE
    /\ allowance = InitialAllowance
    /\ scan = [k \in Scans |-> IdleScan]
    /\ lastScan = IdleScan
    /\ revoke = [k \in Revokes |-> IdleRevoke]
    /\ batch = IdleBatch
    /\ posts = [p \in Pairs |-> 0]
    /\ confirmed = [p \in Pairs |-> 0]
    /\ faults = 0
    /\ fetches = 0
    /\ accountChanges = 0
    /\ lastAccounts = <<>>
    /\ inFlight = {}
    /\ lastToast = NoToast
    /\ NetworkInit

ServerInit ==
    /\ seed \in {0, MaxSeed}
    /\ revoke_history = SeedHistory(seed)
    /\ revoke_stats = SeedStats(seed)
    /\ pc = [c \in Clients |-> "idle"]
    /\ req = [c \in Clients |-> Request("none", 0, NoBody, <<>>)]
    /\ resp = [c \in Clients |-> NoResp]
    /\ existing = [c \in Clients |-> <<>>]
    /\ record = [c \in Clients |-> <<>>]
    /\ reqCount = 0
    /\ failures = 0
    /\ alone = [c \in Clients |-> TRUE]
    /\ everOverlap = FALSE

\* No page is open while the server is studied on its own: requests come
\* from plain HTTP clients and the page's variables hold nothing.
PageClosed ==
    /\ walletAccount = NoAccount /\ account = NoAccount /\ timerAccount = NoAccount
    /\ tokens = NoAccount /\ detectedApprovals = NoAccount /\ isLoading = NoAccount
    /\ isScanning = NoAccount /\ revokingIds = NoAccount /\ selectedIds = NoAccount
    /\ isBatchRevoking = NoAccount /\ allowance = NoAccount /\ scan = NoAccount
    /\ lastScan = NoAccount /\ revoke = NoAccount /\ batch = NoAccount
    /\ posts = NoAccount /\ confirmed = NoAccount /\ faults = NoAccount
    /\ fetches = NoAccount /\ accountChanges = NoAccount /\ lastAccounts = NoAccount
    /\ inFlight = NoAccount /\ lastToast = NoAccount
    /\ chainId = NoAccount /\ chainAdded = NoAccount /\ wrongNetwork = NoAccount
    /\ isConnecting = NoAccount /\ connectCall = NoAccount /\ forceCalls = NoAccount

\* The server as started.
Init == ServerInit /\ PageClosed

----------------------------------------------------------------------------
\* A request arrives at a client's connection.

Receive(c, kind, body, limit) ==
    /\ pc[c] = "idle"
    /\ reqCount < MaxRequests
    /\ reqCount' = reqCount + 1
    /\ req' = [req EXCEPT ![c] = Request(kind, seed + reqCount + 1, body, limit)]
    /\ alone' = [d \in Clients |->
                    IF d = c THEN \A e \in Clients \ {c} : pc[e] = "idle"
                    ELSE IF pc[d] # "idle" THEN FALSE ELSE alone[d]]
    /\ everOverlap' = (everOverlap \/ \E e \in Clients \ {c} : pc[e] # "idle")
    /\ existing' = [existing EXCEPT ![c] = <<>>]
    /\ record' = [record EXCEPT ![c] = <<>>]
    /\ UNCHANGED <<seed, failures>>
    /\ UNCHANGED pageVars

Respond(c, r) ==
    /\ pc' = [pc EXCEPT ![c] = "idle"]
    /\ resp' = [resp EXCEPT ![c] = r]

Goto(c, label) ==
    /\ pc' = [pc EXCEPT ![c] = label]
    /\ resp' = [resp EXCEPT ![c] = NoResp]

Unreceived == UNCHANGED <<req, reqCount, alone, everOverlap, seed, failures, pageVars>>

----------------------------------------------------------------------------
\* GET /api/stats

GetStats(c) ==
    /\ Receive(c, "stats", NoBody, <<>>)
    /\ Goto(c, "gs_select")
    /\ UNCHANGED <<revoke_stats, revoke_history>>

\* getRevokeStats: const [stats] = await db.select().from(revokeStats)
GetRevokeStatsSelect(c) ==
    /\ pc[c] = "gs_select"
    /\ \E s \in SelectFirst :
          IF s = <<>>
          THEN Goto(c, "gs_insert")
          ELSE Respond(c, [status |-> 200,
                           stats |-> <<[totalRevokes |-> s[1].totalRevokes,
                                        totalValueSecured |-> ColumnText(s[1].totalValueSecured)]>>,
                           rows |-> <<>>])
    /\ UNCHANGED <<revoke_stats, revoke_history, existing, record>>
    /\ Unreceived

\* getRevokeStats: the lazy insert of the zero row, and the literal reply.
GetRevokeStatsInsert(c) ==
    /\ pc[c] = "gs_insert"
    /\ revoke_stats' = revoke_stats \cup {StatsRow(req[c].id, 0, Dec(0, 0))}
    /\ Respond(c, [status |-> 200,
                   stats |-> <<[totalRevokes |-> 0, totalValueSecured |-> Dec(0, 0)]>>,
                   rows |-> <<>>])
    /\ UNCHANGED <<revoke_history, existing, record>>
    /\ Unreceived

----------------------------------------------------------------------------
\* POST /api/revoke

PostRevoke(c) ==
    \E body \in Bodies :
        /\ Receive(c, "revoke", body, <<>>)
        /\ IF SafeParse(body)
           THEN Goto(c, "rr_insert")
           ELSE Respond(c, [status |-> 400, stats |-> <<>>, rows |-> <<>>])
        /\ UNCHANGED <<revoke_stats, revoke_history>>

\* The insert written as an upsert of the newest row: it replaces the last
\* history row when there is one.
RecordRevokeInsertReplacing(c) ==
    /\ pc[c] = "rr_insert"
    /\ LET row == HistoryRow(req[c].id, req[c].body, Now)
       IN  /\ revoke_history' = IF revoke_history = <<>>
                                THEN <<row>>
                                ELSE [revoke_history EXCEPT ![Len(revoke_history)] = row]
           /\ record' = [record EXCEPT ![c] = <<row>>]
    /\ Goto(c, "rr_select")
    /\ UNCHANGED <<revoke_stats, existing>>
    /\ Unreceived

\* recordRevoke: const [record] = await db.insert(revokeHistory)...returning()
RecordRevokeInsert(c) ==
    /\ pc[c] = "rr_insert"
    /\ LET row == HistoryRow(req[c].id, req[c].body, Now)
       IN  /\ revoke_history' = Append(revoke_history, row)
           /\ record' = [record EXCEPT ![c] = <<row>>]
    /\ Goto(c, "rr_select")
    /\ UNCHANGED <<revoke_stats, existing>>
    /\ Unreceived

\* recordRevoke: const [existingStats] = await db.select().from(revokeStats)
RecordRevokeSelect(c) ==
    /\ pc[c] = "rr_select"
    /\ \E s \in SelectFirst : existing' = [existing EXCEPT ![c] = s]
    /\ Goto(c, "rr_write")
    /\ UNCHANGED <<revoke_stats, revoke_history, record>>
    /\ Unreceived

\* The update writing the submitted value instead of the new total.
UpdateStatsOverwriting(read, valueSecured) ==
    {IF r.id = read.id
     THEN [r EXCEPT !.totalRevokes = r.totalRevokes + 1,
                    !.totalValueSecured = NumericColumn(ToFixed2(valueSecured))]
     ELSE r : r \in revoke_stats}

\* The update of recordRevoke: total_revokes + 1 is evaluated by the database
\* on the row as it is now; the new total is computed from the row as read.
UpdateStats(read, valueSecured) ==
    {IF r.id = read.id
     THEN [r EXCEPT !.totalRevokes = r.totalRevokes + 1,
                    !.totalValueSecured =
                        NumericColumn(ToFixed2(ParseFloat(ColumnText(read.totalValueSecured))
                                               + valueSecured))]
     ELSE r : r \in revoke_stats}

\* recordRevoke: insert the first stats row, or update the one read.
RecordRevokeWrite(c) ==
    /\ pc[c] = "rr_write"
    /\ LET valueSecured == ValueSecuredOf(req[c].body)
       IN  revoke_stats' =
              IF existing[c] = <<>>
              THEN revoke_stats \cup {StatsRow(req[c].id, 1, ToFixed2(valueSecured))}
              ELSE UpdateStats(existing[c][1], valueSecured)
    /\ Respond(c, [status |-> 200, stats |-> <<>>, rows |-> record[c]])
    /\ existing' = [existing EXCEPT ![c] = <<>>]
    /\ record' = [record EXCEPT ![c] = <<>>]
    /\ UNCHANGED revoke_history
    /\ Unreceived

----------------------------------------------------------------------------
\* GET /api/revokes/recent

GetRecent(c) ==
    \E q \in LimitInputs :
        /\ Receive(c, "recent", NoBody, q)
        /\ Goto(c, "rc_select")
        /\ UNCHANGED <<revoke_stats, revoke_history>>

\* getRecentRevokes(limit); the database rejects a negative LIMIT.
GetRecentRevokesSelect(c) ==
    /\ pc[c] = "rc_select"
    /\ LET limit == RouteLimit(req[c].limit)
       IN  IF limit < 0
           THEN Respond(c, [status |-> 500, stats |-> <<>>, rows |-> <<>>])
           ELSE Respond(c, [status |-> 200, stats |-> <<>>, rows |-> SelectRecent(limit)])
    /\ UNCHANGED <<revoke_stats, revoke_history, existing, record>>
    /\ Unreceived

----------------------------------------------------------------------------
\* A statement throws (database unreachable, ...): the route's catch
\* answers 500 and the request ends where it is.

DbError(c) ==
    /\ pc[c] # "idle"
    /\ failures < MaxFailures
    /\ failures' = failures + 1
    /\ Respond(c, [status |-> 500, stats |-> <<>>, rows |-> <<>>])
    /\ existing' = [existing EXCEPT ![c] = <<>>]
    /\ record' = [record EXCEPT ![c] = <<>>]
    /\ UNCHANGED <<revoke_stats, revoke_history, req, reqCount, alone, everOverlap, seed>>
    /\ UNCHANGED pageVars

----------------------------------------------------------------------------

Next ==
    \E c \in Clients :
        \/ GetStats(c)
        \/ GetRevokeStatsSelect(c)
        \/ GetRevokeStatsInsert(c)
        \/ PostRevoke(c)
        \/ RecordRevokeInsert(c)
        \/ RecordRevokeSelect(c)
        \/ RecordRevokeWrite(c)
        \/ GetRecent(c)
        \/ GetRecentRevokesSelect(c)
        \/ DbError(c)

Spec == Init /\ [][Next]_vars

----------------------------------------------------------------------------
\* Vocabulary of the properties.

Idle == \A c \in Clients : pc[c] = "idle"

\* Client c's request is served in this step with HTTP 200, by the statement at `label`.
Served(c, label) == pc[c] = label /\ pc'[c] = "idle" /\ resp'[c].status = 200

\* The running total as the singleton holds it (an absent row counts as 0, 0).
PriorRevokes == IF revoke_stats = {} THEN 0 ELSE (CHOOSE r \in revoke_stats : TRUE).totalRevokes

PriorCents == IF revoke_stats = {} THEN 0 ELSE (CHOOSE r \in revoke_stats : TRUE).totalValueSecured

\* The submitted valueSecured in mills (0 when omitted).
SubmittedMills(body) ==
    IF body.value = <<>> THEN 0 ELSE body.value[1].units * Pow10(3 - body.value[1].scale)

\* Every request received so far is a POST /api/revoke, one per client.
OnlyRevokesReceived == reqCount = Cardinality({c \in Clients : req[c].kind = "revoke"})

RECURSIVE SumValueSecured(_)
SumValueSecured(table) ==
    IF table = <<>> THEN 0
    ELSE table[1].valueSecured + SumValueSecured(Tail(table))

SortedNewestFirst(rows) ==
    \A i, j \in 1 .. Len(rows) : i < j => rows[i].createdAt >= rows[j].createdAt

----------------------------------------------------------------------------
\* C1 (as stated): a valid POST /api/revoke served with no other request in
\* flight, on a stats table holding the singleton or nothing, leaves
\* totalRevokes exactly 1 greater and totalValueSecured exactly the prior
\* total plus the submitted valueSecured (0 when omitted).
RevokeAloneAddsExactly ==
    [][\A c \in Clients :
          (Served(c, "rr_write") /\ alone[c] /\ Cardinality(revoke_stats) <= 1) =>
              \E r \in revoke_stats' :
                  /\ revoke_stats' = {r}
                  /\ r.totalRevokes = PriorRevokes + 1
                  /\ 10 * r.totalValueSecured = 10 * PriorCents + SubmittedMills(req[c].body)]_vars

\* C1 (amended): under the same conditions totalRevokes is exactly 1 greater
\* and totalValueSecured is the prior total plus the submitted valueSecured
\* rounded to the nearest cent (the submitted value itself when it has at
\* most two fraction digits, 0 when omitted).
RevokeAloneAddsRoundedToCents ==
    [][\A c \in Clients :
          (Served(c, "rr_write") /\ alone[c] /\ Cardinality(revoke_stats) <= 1) =>
              \E r \in revoke_stats' :
                  /\ revoke_stats' = {r}
                  /\ r.totalRevokes = PriorRevokes + 1
                  /\ \E n \in {SubmittedMills(req[c].body) \div 10,
                                (SubmittedMills(req[c].body) \div 10) + 1} :
                        /\ 10 * n - 5 <= SubmittedMills(req[c].body)
                        /\ SubmittedMills(req[c].body) < 10 * n + 5
                        /\ r.totalValueSecured = PriorCents + n]_vars

\* C1 witness: a sub-cent value was recorded, alone, on top of an existing singleton.
RevokeAloneSubCentServed ==
    \E c \in Clients :
        /\ pc[c] = "idle" /\ req[c].kind = "revoke" /\ resp[c].status = 200 /\ alone[c]
        /\ req[c].body.value = <<DecSubCent>>
        /\ \E r \in revoke_stats : revoke_stats = {r} /\ r.totalRevokes = seed + 1 /\ seed > 0

----------------------------------------------------------------------------
\* C2: once concurrent recordRevoke calls have all completed, the
\* singleton's totalValueSecured is the prior total plus the sum of every
\* call's valueSecured, i.e. the sum over all history rows: no increment is lost.
NoLostIncrement ==
    (Idle /\ failures = 0 /\ Cardinality(revoke_stats) = 1) =>
        \A r \in revoke_stats : r.totalValueSecured = SumValueSecured(revoke_history)

----------------------------------------------------------------------------
\* C3: once concurrent recordRevoke calls have all completed, the
\* totalRevokes that getRevokeStats returns equals the number of
\* revoke_history rows.
CountMatchesHistory ==
    (Idle /\ failures = 0 /\ OnlyRevokesReceived) =>
        \A s \in SelectFirst :
            (IF s = <<>> THEN 0 ELSE s[1].totalRevokes) = Len(revoke_history)

----------------------------------------------------------------------------
\* C4: revoke_stats holds at most one row in every reachable state, and
\* exactly one once a getRevokeStats or recordRevoke call has completed.
StatsIsSingleton ==
    /\ Cardinality(revoke_stats) <= 1
    /\ (\E c \in Clients : /\ pc[c] = "idle" /\ resp[c].status = 200
                           /\ req[c].kind \in {"stats", "revoke"})
          => Cardinality(revoke_stats) = 1

----------------------------------------------------------------------------
\* C5: recordRevoke is all-or-nothing: a POST /api/revoke answered 500
\* leaves no revoke_history row of its own, and in no state does
\* revoke_history hold a row that the stats do not count yet.
RECURSIVE SumTotalRevokes(_)
SumTotalRevokes(rows) ==
    IF rows = {} THEN 0
    ELSE LET r == CHOOSE x \in rows : TRUE
         IN  r.totalRevokes + SumTotalRevokes(rows \ {r})

RecordRevokeAllOrNothing ==
    /\ \A c \in Clients :
          (pc[c] = "idle" /\ req[c].kind = "revoke" /\ resp[c].status = 500) =>
              \A i \in 1 .. Len(revoke_history) : revoke_history[i].id # req[c].id
    /\ Len(revoke_history) <= SumTotalRevokes(revoke_stats)

----------------------------------------------------------------------------
\* C6: a GET /api/stats that finds no revoke_stats row answers
\* totalRevokes 0 and totalValueSecured "0", and when it completes exactly
\* one revoke_stats row exists.
FreshStatsCreatesTheSingleton ==
    [][\A c \in Clients :
          Served(c, "gs_insert") =>
              /\ resp'[c].stats[1].totalRevokes = 0
              /\ DecimalText(resp'[c].stats[1].totalValueSecured) = "0"
              /\ Cardinality(revoke_stats') = 1]_vars

\* C6, for a request served with no other request in flight: the same
\* statement holds (the row count fails only when first callers race, C4).
FreshStatsAloneCreatesTheSingleton ==
    [][\A c \in Clients :
          (Served(c, "gs_insert") /\ alone[c]) =>
              /\ resp'[c].stats[1].totalRevokes = 0
              /\ DecimalText(resp'[c].stats[1].totalValueSecured) = "0"
              /\ Cardinality(revoke_stats') = 1]_vars

----------------------------------------------------------------------------
\* C7: a POST /api/revoke whose body misses a required field is answered
\* 400 and leaves revoke_stats and revoke_history unchanged.
MissingFieldIsRejected ==
    [][\A c \in Clients :
          (req'[c] # req[c] /\ req'[c].kind = "revoke"
              /\ RequiredFields \ req'[c].body.present # {}) =>
              /\ pc'[c] = "idle"
              /\ resp'[c].status = 400
              /\ revoke_stats' = revoke_stats
              /\ revoke_history' = revoke_history]_vars

\* C7 witness: a body without tokenAddress has been answered 400.
MissingTokenAddressAnswered400 ==
    \E c \in Clients :
        /\ pc[c] = "idle" /\ req[c].kind = "revoke" /\ resp[c].status = 400
        /\ "tokenAddress" \notin req[c].body.present

----------------------------------------------------------------------------
\* C8: for every integer N supplied as limit (N = 0 included), the rows
\* GET /api/revokes/recent answers are at most N and ordered by createdAt
\* descending.
RecentRespectsLimit ==
    [][\A c \in Clients :
          (Served(c, "rc_select") /\ req[c].limit # <<>>) =>
              /\ Len(resp'[c].rows) <= req[c].limit[1]
              /\ SortedNewestFirst(resp'[c].rows)]_vars

----------------------------------------------------------------------------
\* C9: with limit omitted, GET /api/revokes/recent answers the
\* min(10, number of history rows) most recent revoke_history rows.
RecentDefaultsToTen ==
    [][\A c \in Clients :
          (Served(c, "rc_select") /\ req[c].limit = <<>>) =>
              LET rows == resp'[c].rows
                  got  == {rows[i] : i \in 1 .. Len(rows)}
              IN  /\ Len(rows) = Min(10, Len(revoke_history))
                  /\ Cardinality(got) = Len(rows)
                  /\ got \subseteq Rows(revoke_history)
                  /\ \A h \in Rows(revoke_history) \ got :
                        \A g \in got : h.createdAt < g.createdAt
                  /\ SortedNewestFirst(rows)]_vars

\* C9 witness: the default page was cut to 10 rows out of more than 10.
RecentDefaultCutToTen ==
    \E c \in Clients :
        /\ pc[c] = "idle" /\ req[c].kind = "recent" /\ req[c].limit = <<>>
        /\ resp[c].status = 200
        /\ Len(resp[c].rows) = 10
        /\ resp[c].rows[1].createdAt > 10

----------------------------------------------------------------------------
\* C10: from a fresh database, two sequential POST /api/revoke of "150.00"
\* leave the stats at totalRevokes 2 and totalValueSecured "300.00", and
\* GET /api/revokes/recent?limit=1 then answers exactly the row of the
\* second request.
TwoRevokesOf150 ==
    /\ seed = 0 /\ ~everOverlap /\ failures = 0
    /\ \A c \in Clients : pc[c] \notin {"rr_insert", "rr_select", "rr_write"}
    /\ Len(revoke_history) = 2
    /\ \A i \in 1 .. 2 : revoke_history[i].valueSecured = NumericColumn(Dec150)

TwoSequentialRevokes ==
    [][/\ TwoRevokesOf150' =>
             \E r \in revoke_stats' :
                 /\ revoke_stats' = {r}
                 /\ r.totalRevokes = 2
                 /\ DecimalText(ColumnText(r.totalValueSecured)) = "300.00"
       /\ \A c \in Clients :
             (TwoRevokesOf150 /\ Served(c, "rc_select") /\ req[c].limit = <<1>>) =>
                 /\ Len(resp'[c].rows) = 1
                 /\ \A h \in Rows(revoke_history) : h.id <= resp'[c].rows[1].id]_vars

\* C10 witness: the third request, limit=1, was answered after the two revokes.
SecondRevokeIsTheRecentOne ==
    \E c \in Clients :
        /\ TwoRevokesOf150
        /\ pc[c] = "idle" /\ req[c].kind = "recent" /\ req[c].limit = <<1>>
        /\ req[c].id = 3 /\ resp[c].status = 200
        /\ resp[c].rows = <<revoke_history[2]>>
        /\ \E r \in revoke_stats : r.totalRevokes = 2

----------------------------------------------------------------------------
\* C11.  revoke_history is append-only: every row present before a step is
\* present after it at the same position with the same fields, and a
\* recordRevoke call that is served has added exactly one row, its own.

HistoryIsAppendOnly ==
    [][/\ Len(revoke_history') >= Len(revoke_history)
       /\ \A i \in 1 .. Len(revoke_history) : revoke_history'[i] = revoke_history[i]
       /\ \A c \in Clients :
             Served(c, "rr_write") =>
                Cardinality({i \in 1 .. Len(revoke_history') :
                                revoke_history'[i].id = req[c].id}) = 1]_vars

\* Two revokes were served on top of a seeded history, whose rows are all
\* still there, followed by the two new ones.
TwoRevokesAppended ==
    /\ seed > 0
    /\ Idle
    /\ Len(revoke_history) = seed + 2
    /\ SubSeq(revoke_history, 1, seed) = SeedHistory(seed)
    /\ \E c, d \in Clients :
          /\ c # d
          /\ req[c].kind = "revoke" /\ resp[c].status = 200
          /\ req[d].kind = "revoke" /\ resp[d].status = 200


----------------------------------------------------------------------------
\* The page.  A handler runs to its first await in the step that calls it;
\* each later step is the continuation of one await, run to the next await.
\* Continuations of different invocations interleave.

MaxFaults == 1

MaxFetches == 2

MaxAccountChanges == 2

ServerIdle == UNCHANGED serverVars

NetworkIdle == UNCHANGED networkVars

\* Invocation slots are taken lowest first.
FirstFree(slots, k) ==
    /\ slots[k].pc = "idle"
    /\ \A j \in DOMAIN slots : j < k => slots[j].pc # "idle"

\* ConnectWallet's accountsChanged listener, with home's setAccount as its
\* onAccountChange; with an account it calls forceNetworkSwitch, which runs
\* to its wallet_switchEthereumChain request.
AccountsChanged(accounts) ==
    /\ accountChanges < MaxAccountChanges
    /\ accountChanges' = accountChanges + 1
    /\ lastAccounts' = accounts
    /\ LET next == IF Len(accounts) > 0 THEN accounts[1] ELSE NoAccount
       IN  /\ next # walletAccount
           /\ walletAccount' = next
           /\ account' = next
           /\ forceCalls' = IF next # NoAccount
                             THEN [forceCalls EXCEPT !.switch = @ + 1]
                             ELSE forceCalls
    /\ UNCHANGED <<timerAccount, tokens, detectedApprovals, isLoading, isScanning,
                   revokingIds, selectedIds, isBatchRevoking, allowance, scan, lastScan,
                   revoke, batch, posts, confirmed, faults, fetches, inFlight, lastToast>>
    /\ UNCHANGED <<chainId, chainAdded, wrongNetwork, isConnecting, connectCall>>
    /\ ServerIdle

\* fetchTokens up to its first await, the tokenlist request.
FetchTokens(k, a) ==
    /\ a # NoAccount
    /\ FirstFree(scan, k)
    /\ fetches < MaxFetches
    /\ fetches' = fetches + 1
    /\ isLoading' = TRUE
    /\ scan' = [scan EXCEPT ![k] = [IdleScan EXCEPT !.pc = "tokenlist", !.account = a]]
    /\ lastScan' = IdleScan

\* The effect that forgets to empty the detected approvals on disconnect.
ApprovalListEffectKeepingApprovals ==
    /\ account # timerAccount
    /\ timerAccount' = account
    /\ IF account # NoAccount
       THEN /\ \E k \in Scans : FetchTokens(k, account)
            /\ UNCHANGED <<tokens, detectedApprovals>>
       ELSE /\ tokens' = <<>>
            /\ UNCHANGED <<detectedApprovals, scan, lastScan, fetches, isLoading>>
    /\ UNCHANGED <<walletAccount, account, isScanning, revokingIds, selectedIds,
                   isBatchRevoking, allowance, revoke, batch, posts, confirmed,
                   faults, accountChanges, lastAccounts, inFlight, lastToast>>
    /\ ServerIdle
    /\ NetworkIdle

\* ApprovalList's useEffect on [account]: the cleanup clears the old
\* interval; with an account it fetches and sets the interval, without one
\* it empties the token list and the detected approvals.
ApprovalListEffect ==
    /\ account # timerAccount
    /\ timerAccount' = account
    /\ IF account # NoAccount
       THEN /\ \E k \in Scans : FetchTokens(k, account)
            /\ UNCHANGED <<tokens, detectedApprovals>>
       ELSE /\ tokens' = <<>>
            /\ detectedApprovals' = {}
            /\ UNCHANGED <<scan, lastScan, fetches, isLoading>>
    /\ UNCHANGED <<walletAccount, account, isScanning, revokingIds, selectedIds,
                   isBatchRevoking, allowance, revoke, batch, posts, confirmed,
                   faults, accountChanges, lastAccounts, inFlight, lastToast>>
    /\ ServerIdle
    /\ NetworkIdle

\* The 30 s interval fires: fetchTokens of the render that set it.
PollTick ==
    /\ timerAccount # NoAccount
    /\ \E k \in Scans : FetchTokens(k, timerAccount)
    /\ UNCHANGED <<walletAccount, account, timerAccount, tokens, detectedApprovals,
                   isScanning, revokingIds, selectedIds, isBatchRevoking, allowance,
                   revoke, batch, posts, confirmed, faults, accountChanges, lastAccounts, inFlight, lastToast>>
    /\ ServerIdle
    /\ NetworkIdle

\* The list with its buttons is rendered: an account is connected and the
\* loading panel is not shown.
ListShown == account # NoAccount /\ ~isLoading

\* The Refresh button.
Refresh ==
    /\ ListShown
    /\ \E k \in Scans : FetchTokens(k, account)
    /\ UNCHANGED <<walletAccount, account, timerAccount, tokens, detectedApprovals,
                   isScanning, revokingIds, selectedIds, isBatchRevoking, allowance,
                   revoke, batch, posts, confirmed, faults, accountChanges, lastAccounts, inFlight, lastToast>>
    /\ ServerIdle
    /\ NetworkIdle

\* fetchTokens: the tokenlist response.  A request or a body that throws
\* and a result that is not an array both end in setTokens([]).
TokenListResponse(k) ==
    /\ scan[k].pc = "tokenlist"
    /\ \/ /\ tokens' = <<>>
          /\ isLoading' = FALSE
          /\ scan' = [scan EXCEPT ![k] = IdleScan]
       \/ \E list \in TokenLists :
             /\ scan' = [scan EXCEPT ![k].pc = "balances", ![k].list = list]
             /\ UNCHANGED <<tokens, isLoading>>
    /\ UNCHANGED <<walletAccount, account, timerAccount, detectedApprovals, isScanning,
                   revokingIds, selectedIds, isBatchRevoking, allowance, lastScan, revoke,
                   batch, posts, confirmed, faults, fetches, accountChanges, lastAccounts, inFlight, lastToast>>
    /\ ServerIdle
    /\ NetworkIdle

\* fetchTokens: Promise.all of the balance reads has settled; setTokens, the
\* call of scanForApprovals up to its first await, and the finally.
BalancesSettled(k) ==
    /\ scan[k].pc = "balances"
    /\ \E bal \in SUBSET Range(scan[k].list) :
       \E dec \in SUBSET (Range(scan[k].list) \ bal) :
          /\ faults + Cardinality(bal) + Cardinality(dec) <= MaxFaults
          /\ faults' = faults + Cardinality(bal) + Cardinality(dec)
          /\ LET outcome == [t \in Tokens |->
                                 IF t \notin Range(scan[k].list) THEN "none"
                                 ELSE IF t \in bal THEN "balanceThrew"
                                 ELSE IF t \in dec THEN "decimalsThrew"
                                 ELSE "read"]
                 withBalances ==
                    [i \in 1 .. Len(scan[k].list) |->
                        TokenWithBalance(scan[k].list[i], outcome[scan[k].list[i]])]
             IN  /\ tokens' = withBalances
                 /\ isLoading' = FALSE
                 /\ IF withBalances = <<>>
                    THEN /\ scan' = [scan EXCEPT ![k] = IdleScan]
                         /\ UNCHANGED isScanning
                    ELSE /\ scan' = [scan EXCEPT ![k].pc = "logs", ![k].list = withBalances,
                                                 ![k].ti = 1, ![k].balOf = outcome]
                         /\ isScanning' = TRUE
    /\ UNCHANGED <<walletAccount, account, timerAccount, detectedApprovals, revokingIds,
                   selectedIds, isBatchRevoking, allowance, lastScan, revoke, batch, posts,
                   confirmed, fetches, accountChanges, lastAccounts, inFlight, lastToast>>
    /\ ServerIdle
    /\ NetworkIdle

\* A scan without its finally: the scanning flag stays set.
ScanContinueKeepingSpinner(k, t) ==
    IF t.todo # <<>>
    THEN /\ scan' = [scan EXCEPT ![k] = [t EXCEPT !.pc = "allowance"]]
         /\ UNCHANGED <<detectedApprovals, isScanning, lastScan>>
    ELSE IF t.ti < Len(t.list)
    THEN /\ scan' = [scan EXCEPT ![k] = [t EXCEPT !.pc = "logs", !.ti = t.ti + 1]]
         /\ UNCHANGED <<detectedApprovals, isScanning, lastScan>>
    ELSE /\ scan' = [scan EXCEPT ![k] = IdleScan]
         /\ lastScan' = [t EXCEPT !.pc = "done"]
         /\ detectedApprovals' = t.found
         /\ UNCHANGED isScanning

\* scanForApprovals: where the loops go on after the work on one spender or
\* token is over; past the last token, setDetectedApprovals(found) and the
\* finally.
ScanContinue(k, t) ==
    IF t.todo # <<>>
    THEN /\ scan' = [scan EXCEPT ![k] = [t EXCEPT !.pc = "allowance"]]
         /\ UNCHANGED <<detectedApprovals, isScanning, lastScan>>
    ELSE IF t.ti < Len(t.list)
    THEN /\ scan' = [scan EXCEPT ![k] = [t EXCEPT !.pc = "logs", !.ti = t.ti + 1]]
         /\ UNCHANGED <<detectedApprovals, isScanning, lastScan>>
    ELSE /\ scan' = [scan EXCEPT ![k] = IdleScan]
         /\ lastScan' = [t EXCEPT !.pc = "done"]
         /\ detectedApprovals' = t.found
         /\ isScanning' = FALSE

\* A scan whose try/catch is around the loop: a failed log query ends it.
AfterLogFailureAbort(t) == [t EXCEPT !.ti = Len(t.list)]

\* scanForApprovals: the catch of a token's try block goes on with the next token.
AfterLogFailure(t) == t

\* A scan that keeps every spender the logs name.
KeepSpenderAlways(live) == TRUE

\* scanForApprovals: if (allowance > BigInt(0)) found.push(...)
KeepSpender(live) == live

\* A scan that reads the allowances of tokens without logs too.
SpendersOfLogsOrAll(t, outcome) == LogSpenders(t)

\* scanForApprovals: the spenders collected from a token's logs.
SpendersOfLogs(t, outcome) == IF outcome = "logs" THEN LogSpenders(t) ELSE <<>>

\* scanForApprovals: the response to a token's getLogs request.
LogsResponse(k) ==
    /\ scan[k].pc = "logs"
    /\ LET t == scan[k].list[scan[k].ti].contractAddress
       IN  \/ /\ faults < MaxFaults
              /\ faults' = faults + 1
              /\ ScanContinue(k, AfterLogFailure([scan[k] EXCEPT !.logOf[t] = "failed"]))
           \/ \E outcome \in {"empty", "logs"} :
                 /\ faults' = faults
                 /\ ScanContinue(k, [scan[k] EXCEPT !.logOf[t] = outcome,
                                                    !.todo = SpendersOfLogs(t, outcome)])
    /\ UNCHANGED <<walletAccount, account, timerAccount, tokens, isLoading, revokingIds,
                   selectedIds, isBatchRevoking, allowance, revoke, batch, posts,
                   confirmed, fetches, accountChanges, lastAccounts, inFlight, lastToast>>
    /\ ServerIdle
    /\ NetworkIdle

\* scanForApprovals: the answer to contract.allowance(account, spender).
AllowanceResponse(k) ==
    /\ scan[k].pc = "allowance"
    /\ LET t == scan[k].list[scan[k].ti].contractAddress
           p == <<t, Head(scan[k].todo)>>
           live == <<scan[k].account, p[1], p[2]>> \in allowance
           rest == [scan[k] EXCEPT !.todo = Tail(scan[k].todo)]
       IN  \/ /\ faults < MaxFaults
              /\ faults' = faults + 1
              /\ ScanContinue(k, [rest EXCEPT !.readOf[p] = "failed"])
           \/ /\ faults' = faults
              /\ ScanContinue(k, [rest EXCEPT
                    !.readOf[p] = IF live THEN "live" ELSE "zero",
                    !.found = IF KeepSpender(live) THEN rest.found \cup {p} ELSE rest.found])
    /\ UNCHANGED <<walletAccount, account, timerAccount, tokens, isLoading, revokingIds,
                   selectedIds, isBatchRevoking, allowance, revoke, batch, posts,
                   confirmed, fetches, accountChanges, lastAccounts, inFlight, lastToast>>
    /\ ServerIdle
    /\ NetworkIdle

NextScan ==
    \/ \E accounts \in {<<>>, <<"A">>, <<"B">>} : AccountsChanged(accounts)
    \/ ApprovalListEffect
    \/ PollTick
    \/ Refresh
    \/ \E k \in Scans : TokenListResponse(k)
    \/ \E k \in Scans : BalancesSettled(k)
    \/ \E k \in Scans : LogsResponse(k)
    \/ \E k \in Scans : AllowanceResponse(k)

InitPage == ServerInit /\ seed = 0 /\ PageInit

SpecScan == InitPage /\ [][NextScan]_vars


----------------------------------------------------------------------------
\* Selection and revocation.

\* The order in which a scan pushes pairs, which is the order of the
\* detected approvals.
PairOrder == <<<<"T1", "S1">>, <<"T1", "S2">>, <<"T2", "S1">>, <<"T2", "S2">>>>

InScanOrder(S) == SelectSeq(PairOrder, LAMBDA p : p \in S)

\* The checkbox of a row.
ToggleRow(p) ==
    /\ ListShown
    /\ p \in detectedApprovals
    /\ selectedIds' = IF p \in selectedIds THEN selectedIds \ {p} ELSE selectedIds \cup {p}
    /\ UNCHANGED <<walletAccount, account, timerAccount, tokens, detectedApprovals,
                   isLoading, isScanning, revokingIds, isBatchRevoking, allowance, scan,
                   lastScan, revoke, batch, posts, confirmed, faults, fetches,
                   accountChanges, lastAccounts, inFlight>>
    /\ lastToast' = NoToast
    /\ ServerIdle
    /\ NetworkIdle

\* The select-all checkbox, rendered when there are detected approvals.
ToggleAll ==
    /\ ListShown
    /\ detectedApprovals # {}
    /\ selectedIds' = IF Cardinality(selectedIds) = Cardinality(detectedApprovals)
                      THEN {}
                      ELSE detectedApprovals
    /\ UNCHANGED <<walletAccount, account, timerAccount, tokens, detectedApprovals,
                   isLoading, isScanning, revokingIds, isBatchRevoking, allowance, scan,
                   lastScan, revoke, batch, posts, confirmed, faults, fetches,
                   accountChanges, lastAccounts, inFlight>>
    /\ lastToast' = NoToast
    /\ ServerIdle
    /\ NetworkIdle

\* What the scan and the account do in a step of a revoke handler.
RevokeFrame ==
    /\ UNCHANGED <<walletAccount, account, timerAccount, tokens, isLoading, isScanning,
                   scan, lastScan, fetches, accountChanges, lastAccounts>>
    /\ ServerIdle
    /\ NetworkIdle

\* A call that throws or is declined by the user.
Fault == faults < MaxFaults /\ faults' = faults + 1

\* The transaction of an approve call the wallet has accepted.
Tx(by, p, signer) == [by |-> by, approval |-> p, signer |-> signer]

\* The transaction is mined: the signer's allowance for the pair is zero.
Confirm(tx) ==
    /\ allowance' = allowance \ {<<tx.signer, tx.approval[1], tx.approval[2]>>}
    /\ confirmed' = [confirmed EXCEPT ![tx.approval] = @ + 1]
    /\ inFlight' = inFlight \ {tx}

\* A handler that posts as soon as the wallet has accepted the transaction.
PostsAtSubmission(before, p, event) ==
    IF event = "submitted" THEN [before EXCEPT ![p] = @ + 1] ELSE before

\* recordRevokeToServer is called, and its POST /api/revoke sent, in the
\* continuation of tx.wait() and nowhere else.
PostsAt(before, p, event) ==
    IF event = "confirmed" THEN [before EXCEPT ![p] = @ + 1] ELSE before

\* A catch that keeps the id in the revoking set.
RevokingAfterCatchKept(ids, p) == ids

\* handleRevokeDetected: the catch deletes the id from the revoking set.
RevokingAfterCatch(ids, p) == ids \ {p}

\* handleRevokeDetected up to its first await.
RevokeDetected(k, p) ==
    /\ ListShown
    /\ p \in detectedApprovals
    /\ p \notin revokingIds
    /\ FirstFree(revoke, k)
    /\ revokingIds' = revokingIds \cup {p}
    /\ revoke' = [revoke EXCEPT ![k] = [IdleRevoke EXCEPT !.pc = "prelude", !.approval = p,
                                                          !.account = account]]
    /\ lastToast' = NoToast
    /\ UNCHANGED <<detectedApprovals, selectedIds, isBatchRevoking, allowance, batch,
                   posts, confirmed, faults, inFlight>>
    /\ RevokeFrame

\* handleRevokeDetected: the catch block.
RevokeCaught(k, title) ==
    /\ revokingIds' = RevokingAfterCatch(revokingIds, revoke[k].approval)
    /\ lastToast' = [title |-> title, approval |-> revoke[k].approval]
    /\ revoke' = [revoke EXCEPT ![k] = IdleRevoke]
    /\ UNCHANGED <<detectedApprovals, selectedIds, isBatchRevoking, allowance, batch,
                   confirmed>>

\* handleRevokeDetected: switchNetwork() and getSigner() have answered.
RevokePrelude(k) ==
    /\ revoke[k].pc = "prelude"
    /\ \/ /\ IF walletAccount = NoAccount THEN faults' = faults ELSE Fault
          /\ RevokeCaught(k, "Failed")
          /\ UNCHANGED <<inFlight, posts>>
       \/ /\ walletAccount # NoAccount
          /\ revoke' = [revoke EXCEPT ![k].pc = "approve", ![k].signer = walletAccount]
          /\ UNCHANGED <<detectedApprovals, selectedIds, isBatchRevoking, allowance, batch,
                         posts, confirmed, faults, inFlight, lastToast, revokingIds>>
    /\ RevokeFrame

\* handleRevokeDetected: the wallet answers contract.approve(spender, 0).
RevokeApprove(k) ==
    /\ revoke[k].pc = "approve"
    /\ \/ /\ Fault
          /\ \E title \in {"Cancelled", "Failed"} : RevokeCaught(k, title)
          /\ UNCHANGED inFlight
          /\ posts' = PostsAt(posts, revoke[k].approval, "failed")
       \/ /\ revoke' = [revoke EXCEPT ![k].pc = "wait"]
          /\ inFlight' = inFlight \cup {Tx(<<"single", k>>, revoke[k].approval, revoke[k].signer)}
          /\ posts' = PostsAt(posts, revoke[k].approval, "submitted")
          /\ UNCHANGED <<detectedApprovals, selectedIds, isBatchRevoking, allowance, batch,
                         confirmed, faults, lastToast, revokingIds>>
    /\ RevokeFrame

\* handleRevokeDetected: tx.wait() answers; on a receipt, recordRevokeToServer
\* sends the POST.
RevokeWait(k) ==
    /\ revoke[k].pc = "wait"
    /\ LET tx == Tx(<<"single", k>>, revoke[k].approval, revoke[k].signer)
       IN  \/ /\ Fault
              /\ RevokeCaught(k, "Failed")
              /\ inFlight' = inFlight \ {tx}
              /\ posts' = PostsAt(posts, revoke[k].approval, "failed")
           \/ /\ Confirm(tx)
              /\ posts' = PostsAt(posts, revoke[k].approval, "confirmed")
              /\ revoke' = [revoke EXCEPT ![k].pc = "post"]
              /\ UNCHANGED <<detectedApprovals, selectedIds, isBatchRevoking, batch, faults,
                             lastToast, revokingIds>>
    /\ RevokeFrame

\* handleRevokeDetected: recordRevokeToServer returns (it swallows a failed
\* POST); the approval leaves the detected approvals and the revoking set.
RevokeRecorded(k) ==
    /\ revoke[k].pc = "post"
    /\ \E recorded \in BOOLEAN :
          /\ IF recorded THEN faults' = faults ELSE Fault
          /\ lastToast' = [title |-> "Revoked", approval |-> revoke[k].approval,
                           recorded |-> recorded]
    /\ detectedApprovals' = detectedApprovals \ {revoke[k].approval}
    /\ revokingIds' = revokingIds \ {revoke[k].approval}
    /\ revoke' = [revoke EXCEPT ![k] = IdleRevoke]
    /\ UNCHANGED <<selectedIds, isBatchRevoking, allowance, batch, posts, confirmed,
                   inFlight>>
    /\ RevokeFrame

\* The approve call of position j of toRevoke is made.
BatchCall(b, j) == [b EXCEPT !.pc = "approve", !.i = j, !.tried[j] = @ + 1]

\* A batch whose catch leaves the loop.
AfterItemCaughtStop(b) == [b EXCEPT !.failed = @ \cup {b.i}, !.i = Len(b.toRevoke)]

\* handleBatchRevokeDetected: the catch inside the loop logs the error.
AfterItemCaught(b) == [b EXCEPT !.failed = @ \cup {b.i}]

\* A batch that calls approve for the next item without awaiting tx.wait().
AfterSubmitNotAwaited(b) ==
    IF b.i < Len(b.toRevoke) THEN BatchCall(b, b.i + 1) ELSE [b EXCEPT !.pc = "wait"]

\* handleBatchRevokeDetected: const receipt = await tx.wait()
AfterSubmit(b) == [b EXCEPT !.pc = "wait"]

\* A batch that drops every item it worked on.
DetectedAfterBatchAll(detected, b) == detected \ Range(b.toRevoke)

\* handleBatchRevokeDetected: prev.filter(a => !revokedIds.includes(a.id))
DetectedAfterBatch(detected, b) == detected \ b.revokedIds

\* handleBatchRevokeDetected up to its first await.
BatchRevokeDetected ==
    /\ ListShown
    /\ selectedIds # {}
    /\ ~isBatchRevoking
    /\ LET toRevoke == InScanOrder(detectedApprovals \cap selectedIds)
       IN  /\ toRevoke # <<>>
           /\ batch' = [IdleBatch EXCEPT !.pc = "prelude", !.toRevoke = toRevoke,
                                         !.account = account,
                                         !.tried = [j \in 1 .. Len(toRevoke) |-> 0],
                                         !.forwarded = [j \in 1 .. Len(toRevoke) |-> 0]]
    /\ isBatchRevoking' = TRUE
    /\ lastToast' = NoToast
    /\ UNCHANGED <<detectedApprovals, selectedIds, revokingIds, allowance, revoke, posts,
                   confirmed, faults, inFlight>>
    /\ RevokeFrame

\* handleBatchRevokeDetected: the loop goes on with the next item; past the
\* last one, the toast, the two state updates and the finally.
BatchNext(b) ==
    IF b.i < Len(b.toRevoke)
    THEN /\ batch' = BatchCall(b, b.i + 1)
         /\ UNCHANGED <<detectedApprovals, selectedIds, isBatchRevoking, lastToast>>
    ELSE /\ batch' = IdleBatch
         /\ lastToast' = [title |-> "Batch Complete", success |-> b.success,
                          total |-> Len(b.toRevoke), batch |-> b]
         /\ detectedApprovals' = DetectedAfterBatch(detectedApprovals, b)
         /\ selectedIds' = {}
         /\ isBatchRevoking' = FALSE

\* handleBatchRevokeDetected: switchNetwork() and getSigner() have answered.
BatchPrelude ==
    /\ batch.pc = "prelude"
    /\ \/ /\ IF walletAccount = NoAccount THEN faults' = faults ELSE Fault
          /\ lastToast' = [title |-> "Batch Failed", batch |-> batch]
          /\ isBatchRevoking' = FALSE
          /\ batch' = IdleBatch
          /\ UNCHANGED <<detectedApprovals, selectedIds>>
       \/ /\ walletAccount # NoAccount
          /\ faults' = faults
          /\ batch' = BatchCall([batch EXCEPT !.signer = walletAccount], 1)
          /\ UNCHANGED <<detectedApprovals, selectedIds, isBatchRevoking, lastToast>>
    /\ UNCHANGED <<revokingIds, allowance, revoke, posts, confirmed, inFlight>>
    /\ RevokeFrame

\* handleBatchRevokeDetected: the wallet answers contract.approve(spender, 0).
BatchApprove ==
    /\ batch.pc = "approve"
    /\ LET p == batch.toRevoke[batch.i]
       IN  \/ /\ Fault
              /\ BatchNext(AfterItemCaught(batch))
              /\ posts' = PostsAt(posts, p, "failed")
              /\ UNCHANGED inFlight
           \/ /\ faults' = faults
              /\ inFlight' = inFlight \cup {Tx(<<"batch", 1>>, p, batch.signer)}
              /\ posts' = PostsAt(posts, p, "submitted")
              /\ batch' = AfterSubmit(batch)
              /\ UNCHANGED <<detectedApprovals, selectedIds, isBatchRevoking, lastToast>>
    /\ UNCHANGED <<revokingIds, allowance, revoke, confirmed>>
    /\ RevokeFrame

\* handleBatchRevokeDetected: tx.wait() answers; on a receipt the item is
\* counted and recordRevokeToServer sends the POST.
BatchWait ==
    /\ batch.pc = "wait"
    /\ LET p == batch.toRevoke[batch.i]
           tx == Tx(<<"batch", 1>>, p, batch.signer)
       IN  \/ /\ Fault
              /\ inFlight' = inFlight \ {tx}
              /\ posts' = PostsAt(posts, p, "failed")
              /\ BatchNext(AfterItemCaught(batch))
              /\ UNCHANGED <<allowance, confirmed>>
           \/ /\ faults' = faults
              /\ Confirm(tx)
              /\ posts' = PostsAt(posts, p, "confirmed")
              /\ batch' = [batch EXCEPT !.pc = "post", !.success = @ + 1,
                                        !.revokedIds = @ \cup {p},
                                        !.forwarded[batch.i] = @ + 1]
              /\ UNCHANGED <<detectedApprovals, selectedIds, isBatchRevoking, lastToast>>
    /\ UNCHANGED <<revokingIds, revoke>>
    /\ RevokeFrame

\* handleBatchRevokeDetected: recordRevokeToServer returns.
BatchRecorded ==
    /\ batch.pc = "post"
    /\ \/ Fault
       \/ faults' = faults
    /\ BatchNext(batch)
    /\ UNCHANGED <<revokingIds, allowance, revoke, posts, confirmed, inFlight>>
    /\ RevokeFrame

\* The page after account A connected and the first scan completed: every
\* token was listed with its balance, every log query answered, and every
\* logged pair's allowance was read; one pair had been revoked before.
ScannedSession ==
    /\ walletAccount = "A"
    /\ account = "A"
    /\ timerAccount = "A"
    /\ lastAccounts = <<"A">>
    /\ accountChanges = 1
    /\ fetches = 1
    /\ faults = 0
    /\ tokens = <<TokenWithBalance("T1", "read"), TokenWithBalance("T2", "read")>>
    /\ allowance = InitialAllowance
    /\ detectedApprovals = {p \in LoggedPairs : <<"A", p[1], p[2]>> \in allowance}
    /\ lastScan = [pc |-> "done", account |-> "A", list |-> tokens, ti |-> Len(tokens),
                   todo |-> <<>>, found |-> detectedApprovals,
                   balOf |-> [t \in Tokens |-> "read"],
                   logOf |-> [t \in Tokens |-> "logs"],
                   readOf |-> [p \in Pairs |->
                                  IF p \notin LoggedPairs THEN "none"
                                  ELSE IF p \in detectedApprovals THEN "live" ELSE "zero"]]
    /\ isLoading = FALSE
    /\ isScanning = FALSE
    /\ revokingIds = {}
    /\ selectedIds = {}
    /\ isBatchRevoking = FALSE
    /\ scan = [k \in Scans |-> IdleScan]
    /\ revoke = [k \in Revokes |-> IdleRevoke]
    /\ batch = IdleBatch
    /\ posts = [p \in Pairs |-> 0]
    /\ confirmed = [p \in Pairs |-> 0]
    /\ inFlight = {}
    /\ lastToast = NoToast
    /\ chainId = TargetChain
    /\ chainAdded = TRUE
    /\ wrongNetwork = FALSE
    /\ isConnecting = FALSE
    /\ connectCall = "idle"
    /\ forceCalls = [switch |-> 1, add |-> 0]

InitRevoke == ServerInit /\ seed = 0 /\ ScannedSession

NextRevoke ==
    \/ \E p \in Pairs : ToggleRow(p)
    \/ ToggleAll
    \/ \E k \in Revokes : \E p \in Pairs : RevokeDetected(k, p)
    \/ \E k \in Revokes : RevokePrelude(k)
    \/ \E k \in Revokes : RevokeApprove(k)
    \/ \E k \in Revokes : RevokeWait(k)
    \/ \E k \in Revokes : RevokeRecorded(k)
    \/ BatchRevokeDetected
    \/ BatchPrelude
    \/ BatchApprove
    \/ BatchWait
    \/ BatchRecorded

SpecRevoke == InitRevoke /\ [][NextRevoke]_vars

----------------------------------------------------------------------------
\* Revocations while the list is refreshed: after the first scan, the
\* interval and the Refresh button start fetchTokens again while single
\* revokes run.

NextRescan ==
    \/ PollTick
    \/ Refresh
    \/ \E k \in Scans : TokenListResponse(k)
    \/ \E k \in Scans : BalancesSettled(k)
    \/ \E k \in Scans : LogsResponse(k)
    \/ \E k \in Scans : AllowanceResponse(k)
    \/ \E k \in Revokes : \E p \in Pairs : RevokeDetected(k, p)
    \/ \E k \in Revokes : RevokePrelude(k)
    \/ \E k \in Revokes : RevokeApprove(k)
    \/ \E k \in Revokes : RevokeWait(k)
    \/ \E k \in Revokes : RevokeRecorded(k)

SpecRescan == InitRevoke /\ [][NextRescan]_vars

----------------------------------------------------------------------------
\* The session with every operation of the list, under the assumption that
\* every call the page makes eventually returns or throws: a continuation
\* that is waiting is eventually run.  Clicks and interval ticks may or may
\* not happen.

\* One single revoke is followed at a time, next to the batch and the scan.
SessionRevokes == {1}

\* The page after account A connected and the first scan completed, when
\* A's one live approval is that of S1 for T1 and the explorer listed T1.
SmallSession ==
    /\ walletAccount = "A"
    /\ account = "A"
    /\ timerAccount = "A"
    /\ lastAccounts = <<"A">>
    /\ accountChanges = 1
    /\ fetches = 1
    /\ faults = 0
    /\ tokens = <<TokenWithBalance("T1", "read")>>
    /\ allowance = {<<"A", "T1", "S1">>}
    /\ detectedApprovals = {<<"T1", "S1">>}
    /\ lastScan = [pc |-> "done", account |-> "A", list |-> tokens, ti |-> 1,
                   todo |-> <<>>, found |-> detectedApprovals,
                   balOf |-> [t \in Tokens |-> IF t = "T1" THEN "read" ELSE "none"],
                   logOf |-> [t \in Tokens |-> IF t = "T1" THEN "logs" ELSE "none"],
                   readOf |-> [p \in Pairs |->
                                  IF p = <<"T1", "S1">> THEN "live"
                                  ELSE IF p = <<"T1", "S2">> THEN "zero" ELSE "none"]]
    /\ isLoading = FALSE
    /\ isScanning = FALSE
    /\ revokingIds = {}
    /\ selectedIds = {}
    /\ isBatchRevoking = FALSE
    /\ scan = [k \in Scans |-> IdleScan]
    /\ revoke = [k \in Revokes |-> IdleRevoke]
    /\ batch = IdleBatch
    /\ posts = [p \in Pairs |-> 0]
    /\ confirmed = [p \in Pairs |-> 0]
    /\ inFlight = {}
    /\ lastToast = NoToast
    /\ chainId = TargetChain
    /\ chainAdded = TRUE
    /\ wrongNetwork = FALSE
    /\ isConnecting = FALSE
    /\ connectCall = "idle"
    /\ forceCalls = [switch |-> 1, add |-> 0]

InitSession == ServerInit /\ seed = 0 /\ SmallSession

NextSession ==
    \/ ToggleAll
    \/ \E k \in SessionRevokes : \E p \in Pairs : RevokeDetected(k, p)
    \/ \E k \in SessionRevokes : RevokePrelude(k)
    \/ \E k \in SessionRevokes : RevokeApprove(k)
    \/ \E k \in SessionRevokes : RevokeWait(k)
    \/ \E k \in SessionRevokes : RevokeRecorded(k)
    \/ BatchRevokeDetected
    \/ BatchPrelude
    \/ BatchApprove
    \/ BatchWait
    \/ BatchRecorded
    \/ PollTick
    \/ \E k \in Scans : TokenListResponse(k)
    \/ \E k \in Scans : BalancesSettled(k)
    \/ \E k \in Scans : LogsResponse(k)
    \/ \E k \in Scans : AllowanceResponse(k)

EveryCallReturns ==
    /\ \A k \in Scans :
          /\ WF_vars(TokenListResponse(k))
          /\ WF_vars(BalancesSettled(k))
          /\ WF_vars(LogsResponse(k))
          /\ WF_vars(AllowanceResponse(k))
    /\ \A k \in SessionRevokes :
          /\ WF_vars(RevokePrelude(k))
          /\ WF_vars(RevokeApprove(k))
          /\ WF_vars(RevokeWait(k))
          /\ WF_vars(RevokeRecorded(k))
    /\ WF_vars(BatchPrelude)
    /\ WF_vars(BatchApprove)
    /\ WF_vars(BatchWait)
    /\ WF_vars(BatchRecorded)

SpecSession == InitSession /\ [][NextSession]_vars /\ EveryCallReturns

----------------------------------------------------------------------------
\* The wallet connector: connect, the chainChanged listener and
\* forceNetworkSwitch.  The wallet answers wallet_switchEthereumChain with
\* error 4902 when it does not know the chain; otherwise the user approves
\* (the wallet is then on the chain) or declines, or the request fails.

MaxForceCalls == 2

\* What the approval list does in a step of the wallet connector.
ListIdle ==
    UNCHANGED <<timerAccount, tokens, detectedApprovals, isLoading, isScanning,
                revokingIds, selectedIds, isBatchRevoking, allowance, scan, lastScan,
                revoke, batch, posts, confirmed, fetches, accountChanges, lastAccounts,
                inFlight, lastToast>>

\* The CONNECT WALLET button: connect up to its eth_requestAccounts request.
\* The button is not rendered while the SWITCH TO ARC button is.
Connect ==
    /\ ~(walletAccount # NoAccount /\ wrongNetwork)
    /\ ~isConnecting
    /\ connectCall = "idle"
    /\ isConnecting' = TRUE
    /\ connectCall' = "accounts"
    /\ UNCHANGED <<walletAccount, account, faults, chainId, chainAdded, wrongNetwork,
                   forceCalls>>
    /\ ListIdle
    /\ ServerIdle

\* connect: the outer catch and the finally.
ConnectFailed ==
    /\ isConnecting' = FALSE
    /\ connectCall' = "idle"
    /\ UNCHANGED wrongNetwork

\* connect: setWrongNetwork(false), the toast and the finally.
ConnectDone ==
    /\ wrongNetwork' = FALSE
    /\ isConnecting' = FALSE
    /\ connectCall' = "idle"

\* connect: eth_requestAccounts answers; setAccount, onAccountChange and the
\* wallet_switchEthereumChain request.
ConnectAccounts ==
    /\ connectCall = "accounts"
    /\ \/ /\ Fault
          /\ ConnectFailed
          /\ UNCHANGED <<walletAccount, account>>
       \/ \E a \in Accounts :
             /\ faults' = faults
             /\ walletAccount' = a
             /\ account' = a
             /\ connectCall' = "switch"
             /\ UNCHANGED <<wrongNetwork, isConnecting>>
    /\ UNCHANGED <<chainId, chainAdded, forceCalls>>
    /\ ListIdle
    /\ ServerIdle

\* connect: wallet_switchEthereumChain answers.  An error other than 4902 is
\* swallowed by the inner catch.
ConnectSwitch ==
    /\ connectCall = "switch"
    /\ IF ~chainAdded
       THEN /\ connectCall' = "add"
            /\ UNCHANGED <<faults, chainId, wrongNetwork, isConnecting>>
       ELSE \/ /\ faults' = faults
               /\ chainId' = TargetChain
               /\ ConnectDone
            \/ /\ Fault
               /\ chainId' = chainId
               /\ ConnectDone
    /\ UNCHANGED <<walletAccount, account, chainAdded, forceCalls>>
    /\ ListIdle
    /\ ServerIdle

\* connect: wallet_addEthereumChain answers.  The wallet that adds the chain
\* may or may not make it the active one; a throw reaches the outer catch.
ConnectAdd ==
    /\ connectCall = "add"
    /\ \/ /\ Fault
          /\ ConnectFailed
          /\ UNCHANGED <<chainId, chainAdded>>
       \/ /\ faults' = faults
          /\ chainAdded' = TRUE
          /\ chainId' \in {chainId, TargetChain}
          /\ ConnectDone
    /\ UNCHANGED <<walletAccount, account, forceCalls>>
    /\ ListIdle
    /\ ServerIdle

\* The user makes another chain the wallet's active one, and the
\* chainChanged listener runs: off the target chain it sets the flag and
\* calls forceNetworkSwitch, on it it clears the flag.
ChainChanged(c) ==
    /\ c # chainId
    /\ c = TargetChain => chainAdded
    /\ forceCalls.switch + forceCalls.add < MaxForceCalls
    /\ chainId' = c
    /\ IF c # TargetChain
       THEN /\ wrongNetwork' = TRUE
            /\ forceCalls' = [forceCalls EXCEPT !.switch = @ + 1]
       ELSE /\ wrongNetwork' = FALSE
            /\ UNCHANGED forceCalls
    /\ UNCHANGED <<walletAccount, account, faults, chainAdded, isConnecting, connectCall>>
    /\ ListIdle
    /\ ServerIdle

\* forceNetworkSwitch: wallet_switchEthereumChain answers.
ForceSwitch ==
    /\ forceCalls.switch > 0
    /\ IF ~chainAdded
       THEN /\ forceCalls' = [switch |-> forceCalls.switch - 1, add |-> forceCalls.add + 1]
            /\ UNCHANGED <<faults, chainId, wrongNetwork>>
       ELSE /\ forceCalls' = [forceCalls EXCEPT !.switch = @ - 1]
            /\ \/ /\ faults' = faults
                  /\ chainId' = TargetChain
                  /\ wrongNetwork' = FALSE
               \/ /\ Fault
                  /\ UNCHANGED <<chainId, wrongNetwork>>
    /\ UNCHANGED <<walletAccount, account, chainAdded, isConnecting, connectCall>>
    /\ ListIdle
    /\ ServerIdle

\* forceNetworkSwitch: wallet_addEthereumChain answers.
ForceAdd ==
    /\ forceCalls.add > 0
    /\ forceCalls' = [forceCalls EXCEPT !.add = @ - 1]
    /\ \/ /\ Fault
          /\ UNCHANGED <<chainId, chainAdded, wrongNetwork>>
       \/ /\ faults' = faults
          /\ chainAdded' = TRUE
          /\ chainId' \in {chainId, TargetChain}
          /\ wrongNetwork' = FALSE
    /\ UNCHANGED <<walletAccount, account, isConnecting, connectCall>>
    /\ ListIdle
    /\ ServerIdle

\* The page as mounted, with the wallet on any chain it knows.
InitConnect ==
    /\ ServerInit /\ seed = 0
    /\ walletAccount = NoAccount
    /\ account = NoAccount
    /\ timerAccount = NoAccount
    /\ tokens = <<>>
    /\ detectedApprovals = {}
    /\ isLoading = FALSE
    /\ isScanning = FALSE
    /\ revokingIds = {}
    /\ selectedIds = {}
    /\ isBatchRevoking = FALSE
    /\ allowance = InitialAllowance
    /\ scan = [k \in Scans |-> IdleScan]
    /\ lastScan = IdleScan
    /\ revoke = [k \in Revokes |-> IdleRevoke]
    /\ batch = IdleBatch
    /\ posts = [p \in Pairs |-> 0]
    /\ confirmed = [p \in Pairs |-> 0]
    /\ faults = 0
    /\ fetches = 0
    /\ accountChanges = 0
    /\ lastAccounts = <<>>
    /\ inFlight = {}
    /\ lastToast = NoToast
    /\ chainId \in Chains
    /\ chainAdded \in {b \in BOOLEAN : chainId = TargetChain => b}
    /\ wrongNetwork = FALSE
    /\ isConnecting = FALSE
    /\ connectCall = "idle"
    /\ forceCalls = NoForceCalls

NextConnect ==
    \/ Connect
    \/ ConnectAccounts
    \/ ConnectSwitch
    \/ ConnectAdd
    \/ \E c \in Chains : ChainChanged(c)
    \/ ForceSwitch
    \/ ForceAdd
    \/ \E accounts \in {<<>>, <<"A">>, <<"B">>} : AccountsChanged(accounts)

SpecConnect == InitConnect /\ [][NextConnect]_vars

----------------------------------------------------------------------------
\* Vocabulary of the scan properties.

\* Invocation k's scan runs past its last token in this step: its found
\* list becomes the detected approvals.
ScanCompletes(k) == scan[k].pc \in {"logs", "allowance"} /\ scan'[k].pc = "idle"

\* A scan has completed and no fetch has started since.
ScanCompleted == lastScan.pc = "done"

----------------------------------------------------------------------------
\* C12.  The result of a completed scan holds a (token, spender) pair only if
\* the allowance that scan read for it was non-zero; a spender the logs name
\* whose allowance was read as zero is not in it.

ResultHoldsOnlyLiveAllowances ==
    [][\A k \in Scans :
          ScanCompletes(k) =>
             \A p \in Pairs :
                /\ p \in detectedApprovals' => lastScan'.readOf[p] = "live"
                /\ lastScan'.readOf[p] = "zero" => p \notin detectedApprovals']_vars

\* A scan completed that read one logged spender's allowance as zero and
\* another's as non-zero: its result holds the second and not the first.
ZeroAllowanceLeftOut ==
    /\ ScanCompleted
    /\ detectedApprovals = lastScan.found
    /\ \E p, q \in Pairs :
          /\ lastScan.logOf[p[1]] = "logs" /\ lastScan.readOf[p] = "zero"
          /\ p \notin detectedApprovals
          /\ lastScan.readOf[q] = "live" /\ q \in detectedApprovals


----------------------------------------------------------------------------
\* C13.  A token whose log query answered with no Approval log has no pair
\* in the result of that scan, whatever its balance.

NoLogsNoApproval ==
    [][\A k \in Scans :
          ScanCompletes(k) =>
             \A i \in 1 .. Len(lastScan'.list) :
                lastScan'.logOf[lastScan'.list[i].contractAddress] = "empty" =>
                   \A p \in detectedApprovals' : p[1] # lastScan'.list[i].contractAddress]_vars

\* A scan completed over a token with a positive balance and no logs and
\* another token with a live approval: only the second is in the result.
HeldTokenWithoutLogsLeftOut ==
    /\ ScanCompleted
    /\ detectedApprovals = lastScan.found
    /\ detectedApprovals # {}
    /\ \E i \in 1 .. Len(lastScan.list) :
          /\ lastScan.list[i].balance.units > 0
          /\ lastScan.logOf[lastScan.list[i].contractAddress] = "empty"
          /\ \A p \in detectedApprovals : p[1] # lastScan.list[i].contractAddress


----------------------------------------------------------------------------
\* C14.  A scan is not aborted by a failure: when it completes, the logs of
\* every token of its list were queried, the allowance of every spender the
\* answered logs name was read, and every pair whose read answered a
\* non-zero allowance is in the result, whichever other queries and reads
\* failed.

ScanSurvivesFailures ==
    [][\A k \in Scans :
          ScanCompletes(k) =>
             /\ \A i \in 1 .. Len(lastScan'.list) :
                   lastScan'.logOf[lastScan'.list[i].contractAddress] # "none"
             /\ \A p \in Pairs :
                   /\ (lastScan'.logOf[p[1]] = "logs" /\ p[2] \in Range(LogSpenders(p[1])))
                         => lastScan'.readOf[p] # "none"
                   /\ lastScan'.readOf[p] = "live" => p \in detectedApprovals']_vars

\* A scan completed although the log query of one of its tokens failed: the
\* live approval of its other token is in the result.
ScanCompletedPastFailedLogs ==
    /\ ScanCompleted
    /\ detectedApprovals = lastScan.found
    /\ \E t, u \in Tokens :
          /\ t # u
          /\ lastScan.logOf[t] = "failed"
          /\ \E p \in detectedApprovals : p[1] = u /\ lastScan.readOf[p] = "live"


----------------------------------------------------------------------------
\* C20.  An accountsChanged event with an empty list sets the wallet
\* connector's account and the page's account to null, and the effect that
\* runs for the null account empties the token list and the detected
\* approvals.

DisconnectEmptiesTheSession ==
    [][/\ (accountChanges' # accountChanges /\ lastAccounts' = <<>>)
             => (walletAccount' = NoAccount /\ account' = NoAccount)
       /\ (timerAccount' # timerAccount /\ account = NoAccount)
             => (tokens' = <<>> /\ detectedApprovals' = {})]_vars

\* A scan for a connected account had found approvals; the wallet then
\* reported no account and the effect ran: nothing is listed any more.
DisconnectedAfterFindings ==
    /\ lastAccounts = <<>>
    /\ accountChanges > 0
    /\ walletAccount = NoAccount
    /\ account = NoAccount
    /\ timerAccount = NoAccount
    /\ ScanCompleted /\ lastScan.found # {}
    /\ tokens = <<>>
    /\ detectedApprovals = {}


----------------------------------------------------------------------------
\* Vocabulary of the revoke properties.

\* Invocation k of handleRevokeDetected returns in this step.
RevokeEnds(k) == revoke[k].pc # "idle" /\ revoke'[k].pc = "idle"

\* It returns through its catch block.
RevokeIsCaught(k) == RevokeEnds(k) /\ revoke[k].pc # "post"

\* The batch runs past its last item in this step.
BatchCompletes == batch.pc \in {"approve", "wait", "post"} /\ batch'.pc = "idle"

\* The transactions of the batch that are submitted and unconfirmed.
BatchInFlight == {tx \in inFlight : tx.by[1] = "batch"}

----------------------------------------------------------------------------
\* C15.  A single revoke that ends in its catch block (the user rejected, or
\* any call threw) leaves the detected approvals as they are and takes its
\* id out of the revoking set: the Revoke button of the item is enabled again.

FailedRevokeIsRetryable ==
    [][\A k \in Revokes :
          RevokeIsCaught(k) =>
             /\ detectedApprovals' = detectedApprovals
             /\ revoke[k].approval \notin revokingIds']_vars

\* The user rejected the transaction of an approval: it is still listed and
\* not in the revoking set.
RejectedApprovalStillListed ==
    /\ lastToast.title = "Cancelled"
    /\ lastToast.approval \in detectedApprovals
    /\ lastToast.approval \notin revokingIds
    /\ confirmed[lastToast.approval] = 0

----------------------------------------------------------------------------
\* C16.  POST /api/revoke requests and confirmed approve transactions
\* correspond one to one per approval: a POST is sent only in the step in
\* which a submitted transaction of that approval is confirmed, and once.
\* When the single revoke returns after a confirmation, and when the batch
\* completes, the confirmed approvals are out of the detected approvals,
\* also when the POST failed.

PostedIffConfirmed ==
    [][/\ \A p \in Pairs :
             /\ posts'[p] = confirmed'[p]
             /\ posts'[p] # posts[p] =>
                   /\ posts'[p] = posts[p] + 1
                   /\ \E tx \in inFlight \ inFlight' : tx.approval = p
       /\ \A k \in Revokes :
             (RevokeEnds(k) /\ revoke[k].pc = "post")
                => revoke[k].approval \notin detectedApprovals'
       /\ BatchCompletes =>
             lastToast'.batch.revokedIds \cap detectedApprovals' = {}]_vars

\* A transaction was confirmed and its POST failed: one POST was sent, and
\* the approval is out of the detected approvals.
ConfirmedButNotRecorded ==
    /\ lastToast.title = "Revoked"
    /\ ~lastToast.recorded
    /\ confirmed[lastToast.approval] = 1
    /\ posts[lastToast.approval] = 1
    /\ lastToast.approval \notin detectedApprovals

----------------------------------------------------------------------------
\* C17.  The transactions of a batch are sequential: at most one of them is
\* submitted and unconfirmed, and none is while the batch calls approve.

BatchIsSequential ==
    /\ Cardinality(BatchInFlight) <= 1
    /\ batch.pc = "approve" => BatchInFlight = {}

\* The second transaction of a batch is in flight, the first was confirmed.
SecondBatchTxInFlight ==
    /\ batch.pc = "wait"
    /\ batch.i = 2
    /\ confirmed[batch.toRevoke[1]] = 1
    /\ BatchInFlight = {Tx(<<"batch", 1>>, batch.toRevoke[2], batch.signer)}

----------------------------------------------------------------------------
\* C18.  A batch works on the detected approvals that are selected when it
\* starts.  When it runs past its last item, approve was called exactly
\* once for every one of them, and the success count it reports plus the
\* number of items whose catch ran is the number of items.

BatchAttemptsEveryItemOnce ==
    [][/\ (batch.pc = "idle" /\ batch'.pc = "prelude")
             => Range(batch'.toRevoke) = detectedApprovals \cap selectedIds
       /\ BatchCompletes =>
             LET b == lastToast'.batch
             IN  /\ b.toRevoke = batch.toRevoke
                 /\ \A j \in 1 .. Len(b.toRevoke) : b.tried[j] = 1
                 /\ lastToast'.total = Len(b.toRevoke)
                 /\ lastToast'.success + Cardinality(b.failed) = Len(b.toRevoke)]_vars

\* A batch of two completed whose first item failed: the second was
\* attempted and confirmed, and 1/2 is reported.
BatchWentOnAfterFailure ==
    /\ lastToast.title = "Batch Complete"
    /\ lastToast.total = 2
    /\ lastToast.success = 1
    /\ lastToast.batch.failed = {1}
    /\ lastToast.batch.tried[2] = 1

----------------------------------------------------------------------------
\* C19.  When a batch completes, the approvals it takes out of the detected
\* approvals are exactly its items whose transaction was confirmed, the
\* items that failed stay, and recordRevokeToServer was called once for
\* every confirmed item and not for the others.

BatchRemovesExactlyTheConfirmed ==
    [][BatchCompletes =>
          LET b == lastToast'.batch
              done == {b.toRevoke[j] : j \in (1 .. Len(b.toRevoke)) \ b.failed}
          IN  /\ b.revokedIds = done
              /\ detectedApprovals \ detectedApprovals' = detectedApprovals \cap done
              /\ \A j \in 1 .. Len(b.toRevoke) :
                    b.forwarded[j] = IF j \in b.failed THEN 0 ELSE 1]_vars

\* A batch of two completed whose second item failed: the first is out of
\* the detected approvals and was posted once, the second is still listed.
BatchKeptTheFailedItem ==
    /\ lastToast.title = "Batch Complete"
    /\ lastToast.total = 2
    /\ lastToast.batch.failed = {2}
    /\ lastToast.batch.toRevoke[1] \notin detectedApprovals
    /\ posts[lastToast.batch.toRevoke[1]] = 1
    /\ lastToast.batch.toRevoke[2] \in detectedApprovals


----------------------------------------------------------------------------
\* Vocabulary of the listing properties.

\* Invocation k's tokenlist request fails, or answers without a result array.
ListRequestFails(k) == scan[k].pc = "tokenlist" /\ scan'[k].pc = "idle"

\* Invocation k's balance reads settle in this step: setTokens is called.
BalancesSettle(k) == scan[k].pc = "balances" /\ scan'[k].pc # "balances"

----------------------------------------------------------------------------
\* C21.  When connect returns after its switch/add attempt (approved,
\* declined or failed), wrongNetwork is true exactly when the wallet's
\* active chain is not the target chain; the same holds after every change
\* of the wallet's active chain, which the chainChanged listener handles.

ConnectFinishes == connectCall \in {"switch", "add"} /\ connectCall' = "idle"

WrongNetworkIffOffTarget ==
    [][(ConnectFinishes \/ chainId' # chainId)
          => (wrongNetwork' <=> chainId' # TargetChain)]_vars

----------------------------------------------------------------------------
\* C22 (as stated).  A failed tokenlist request leaves the token list empty;
\* an answered one gives one entry per explorer token, in order, and a token
\* whose balance or decimals read failed has balance '0' and decimals 18.
ListingDefaultsBothOnAnyFailure ==
    [][\A k \in Scans :
          /\ ListRequestFails(k) => tokens' = <<>>
          /\ BalancesSettle(k) =>
                /\ Len(tokens') = Len(scan[k].list)
                /\ \A i \in 1 .. Len(tokens') :
                      /\ tokens'[i].contractAddress = scan[k].list[i]
                      /\ scan'[k].balOf[scan[k].list[i]] \in {"balanceThrew", "decimalsThrew"}
                            => (tokens'[i].balance = Dec(0, 0) /\ tokens'[i].decimals = 18)]_vars

\* C22 (amended).  A failed tokenlist request leaves the token list empty;
\* an answered one gives one entry per explorer token, in order.  A token
\* whose balance read failed has balance '0' and decimals 18; a token whose
\* decimals read alone failed has decimals 18 and its balance formatted with
\* 18 decimals; every other token has the balance and decimals read.
ListingFailsSoftPerToken ==
    [][\A k \in Scans :
          /\ ListRequestFails(k) => tokens' = <<>>
          /\ BalancesSettle(k) =>
                /\ Len(tokens') = Len(scan[k].list)
                /\ \A i \in 1 .. Len(tokens') :
                      LET t == scan[k].list[i]
                          outcome == scan'[k].balOf[t]
                      IN  /\ tokens'[i].contractAddress = t
                          /\ outcome = "balanceThrew" =>
                                (tokens'[i].balance = Dec(0, 0) /\ tokens'[i].decimals = 18)
                          /\ outcome = "decimalsThrew" =>
                                /\ tokens'[i].decimals = 18
                                /\ tokens'[i].balance = FormatUnits(ChainBalance(t), 18)
                          /\ outcome = "read" =>
                                /\ tokens'[i].decimals = ChainDecimals(t)
                                /\ tokens'[i].balance =
                                      FormatUnits(ChainBalance(t), ChainDecimals(t))]_vars

\* Two tokens were listed and the balance read of the first failed: it is
\* in the token list with '0' and 18, next to the second with its balance
\* and decimals as read.
FailedBalanceNextToSibling ==
    \E k \in Scans :
        /\ scan[k].pc = "logs" /\ scan[k].ti = 1
        /\ scan[k].balOf = [t \in Tokens |-> IF t = "T1" THEN "balanceThrew" ELSE "read"]
        /\ tokens = <<TokenWithBalance("T1", "balanceThrew"), TokenWithBalance("T2", "read")>>
        /\ tokens[1].balance = Dec(0, 0) /\ tokens[1].decimals = 18
        /\ tokens[2].decimals = 6

----------------------------------------------------------------------------
\* C23.  An approval whose revoke was confirmed and which was removed from
\* the detected approvals stays out of them: no scan, also not one that read
\* its allowance before the confirmation, puts it back.
RevokedStaysOut ==
    [][\A p \in Pairs :
          (confirmed[p] > 0 /\ p \notin detectedApprovals) => p \notin detectedApprovals']_vars

----------------------------------------------------------------------------
\* C24.  Once the connected account is no longer the one a fetchTokens
\* invocation was started for, no continuation of that invocation or of its
\* scan writes the token list or the detected approvals.
StaleResultsAbandoned ==
    [][\A k \in Scans :
          (scan[k].pc # "idle" /\ scan[k].account # account /\ scan'[k] # scan[k])
             => (tokens' = tokens /\ detectedApprovals' = detectedApprovals)]_vars

----------------------------------------------------------------------------
\* C25.  Across the page, single revokes and the batch together, at most one
\* approve transaction of the connected signer is submitted and unconfirmed.
OneTransactionInFlight ==
    \A signer \in Accounts : Cardinality({tx \in inFlight : tx.signer = signer}) <= 1

----------------------------------------------------------------------------
\* C26.  Every started operation returns the page to idle: a fetchTokens
\* run ends with isLoading false, a scan with isScanning false, a single
\* revoke with its id out of the revoking set, a batch with isBatchRevoking
\* false, whichever of their calls throw.  (A flag that is always reset
\* after it was set is one that is reset again and again: F ~> ~F is []<>~F.)
OperationsReturnToIdle ==
    /\ []<>(~isLoading)
    /\ []<>(~isScanning)
    /\ \A p \in Pairs : []<>(p \notin revokingIds)
    /\ []<>(~isBatchRevoking)

\* A rescan with a failed log query has completed, and a single revoke and
\* a batch have both returned after their transactions were confirmed:
\* nothing is loading, scanning or revoking.
EveryOperationReturned ==
    /\ fetches = 2
    /\ ScanCompleted
    /\ \E t \in Tokens : lastScan.logOf[t] = "failed"
    /\ lastToast.title = "Batch Complete"
    /\ confirmed[<<"T1", "S1">>] = 2
    /\ \A k \in Revokes : revoke[k].pc = "idle"
    /\ batch.pc = "idle"
    /\ ~isLoading /\ ~isScanning /\ revokingIds = {} /\ ~isBatchRevoking

----------------------------------------------------------------------------
\* C27.  Within a session without a rescan, at most one POST /api/revoke is
\* sent for a detected approval, whichever handlers revoke it.
PostedAtMostOnce == \A p \in Pairs : posts[p] <= 1

----------------------------------------------------------------------------
\* C28.  Every selected id is the id of a detected approval.
SelectedAreDetected == selectedIds \subseteq detectedApprovals

----------------------------------------------------------------------------
\* C29.  When a refresh ends with an empty token list (the request failed,
\* the response had no result array, or the explorer listed nothing), the
\* detected approvals are empty too; and when a refresh's scan completes,
\* every detected approval is of a token of the token list.
DetectedWithinTokenList ==
    [][\A k \in Scans :
          /\ (ListRequestFails(k) \/ (BalancesSettle(k) /\ tokens' = <<>>))
                => detectedApprovals' = {}
          /\ ScanCompletes(k) =>
                \A p \in detectedApprovals' :
                   \E i \in 1 .. Len(tokens') : tokens'[i].contractAddress = p[1]]_vars

----------------------------------------------------------------------------
\* C30.  The read endpoints do not write once a revoke_stats row exists: a
\* row, once present, stays present; the select of a GET /api/stats that
\* runs when a row is present answers the request and leaves both tables
\* unchanged (the lazy insert is not reached); the arrival and the select
\* of a GET /api/revokes/recent leave both tables unchanged in every state.
TablesUnchanged == revoke_stats' = revoke_stats /\ revoke_history' = revoke_history

ReadsDoNotWrite ==
    [][/\ revoke_stats # {} => revoke_stats' # {}
       /\ \A c \in Clients :
             /\ (pc[c] = "idle" /\ pc'[c] \in {"gs_select", "rc_select"}) => TablesUnchanged
             /\ (pc[c] = "gs_select" /\ pc'[c] # pc[c] /\ revoke_stats # {})
                   => (TablesUnchanged /\ pc'[c] = "idle")
             /\ (pc[c] = "rc_select" /\ pc'[c] # pc[c]) => TablesUnchanged]_vars

\* On a database that had served revokes, a GET /api/stats and a GET
\* /api/revokes/recent were answered 200 and the tables are as they were.
ReadsServedTablesAsSeeded ==
    /\ seed > 0
    /\ revoke_stats = SeedStats(seed)
    /\ revoke_history = SeedHistory(seed)
    /\ \E c, d \in Clients :
          /\ pc[c] = "idle" /\ req[c].kind = "stats" /\ resp[c].status = 200
          /\ resp[c].stats[1].totalRevokes = seed
          /\ pc[d] = "idle" /\ req[d].kind = "recent" /\ resp[d].status = 200
          /\ Len(resp[d].rows) > 0

====
